---------------------------- MODULE Spec2Model ----------------------------
(***************************************************************************)
(* The Dashboard component of react-dashboard/src/pages/Dashboard.js as a  *)
(* state machine: the React state of the component, the asynchronous       *)
(* fetchCDRs invocations in flight (one "slot" per invocation), the        *)
(* polling interval and the auto-dismiss timeout.                          *)
(*                                                                         *)
(* JavaScript runs every handler to completion, so one action is one       *)
(* handler: a click, a timer callback, or the continuation of fetchCDRs    *)
(* that runs when a response arrives, together with the effects React      *)
(* runs for the state that handler changed.                                *)
(*                                                                         *)
(* Time is counted in units of 4000 ms for the auto-dismiss timeout, whose  *)
(* delay of 8000 ms is 2 units.  The polling interval is not timed: its    *)
(* callback may run at any moment while the interval is set, which covers  *)
(* every delay between a tick and the responses of earlier invocations.    *)
(*                                                                         *)
(* Text is a sequence of one-character strings wherever the code looks     *)
(* inside it (trim, toLowerCase, includes); CharsOf gives the characters   *)
(* of the field values the records carry.                                  *)
(***************************************************************************)
EXTENDS Integers, Sequences, FiniteSets, TLC

\* ------------------------------------------------------------------ bounds
\* fetchCDRs invocations that may be in flight at the same time
MaxCycles == 2
\* longest record set the filter and the statistics are computed for
MaxDeriveLen == 2
\* ------------------------------------------------------- program constants
\* setTimeout(..., 8000), in units of 4000 ms
ErrDelay == 2
\* the message fetchCDRs' catch hands to setError
ErrMsg == "Failed to fetch CDR data. Please check if the backend is running."
\* useState(null): no error
NoError == "null"
\* a Call Detail Record without an ipfs_cid
NoCid == "undefined"
\* a Call Detail Record without a status
NoStatus == "undefined"
\* no setTimeout handle is held by the auto-dismiss effect
NoTimer == -1

Slots == 1..MaxCycles

\* ------------------------------------------------------------------ inputs
\* The records of the backend's ledger, in ledger order.
Ledger ==
    << [caller |-> "A", callee |-> "B", hash |-> "h1", ipfs_cid |-> "Qm1", status |-> "verified"],
       [caller |-> "C", callee |-> "D", hash |-> "h2", ipfs_cid |-> NoCid, status |-> "error"] >>

\* longest record list a list response carries
MaxLen == Len(Ledger)

\* The lists a list response may carry: the first n records of the ledger.
RecordLists == { SubSeq(Ledger, 1, n) : n \in 0..MaxLen }

\* What cdrAPI.getAllCDRs() resolves to: an object with or without a cdrs list.
Responses ==
    { [hasCdrs |-> TRUE, cdrs |-> l] : l \in RecordLists } \cup { [hasCdrs |-> FALSE, cdrs |-> <<>>] }

\* How one cdrAPI.verifyCDR call ends: resolves with verified true or false, or rejects.
VerifyOutcomes == { "true", "false", "fail" }

Pending == "pending"

VARIABLES
    phase,        \* "init" before the component mounts, "live" while mounted, "gone" after unmount
    cdrs,         \* useState([]): the record set
    loading,      \* useState(true)
    error,        \* useState(null)
    lastRefresh,  \* useState(new Date()): 0, or the slot of the invocation that set it last
    cyc,          \* the fetchCDRs invocations: per slot, where it stands and what it holds
    polling,      \* TRUE while the interval set by setInterval(fetchCDRs, 20000) is not cleared
    errTimer,     \* time left until the auto-dismiss timeout is due; NoTimer when none is pending
    pub,          \* what the invocation that called setCdrs last had fetched, and how each
                  \* of its verifyCDR calls ended
    searchTerm,   \* useState(''): the characters of the search term
    filteredCdrs  \* useState([]): the records handed to the table and the chart

vars == << phase, cdrs, loading, error, lastRefresh, cyc, polling, errTimer, pub,
           searchTerm, filteredCdrs >>

IdleSlot ==
    [pc |-> "idle", trigger |-> "none", overlapped |-> FALSE,
     records |-> <<>>, outcome |-> <<>>, settled |-> <<>>]

\* An invocation that has returned holds nothing any more.
Returned(slot, how) ==
    [IdleSlot EXCEPT !.pc = how, !.trigger = slot.trigger, !.overlapped = slot.overlapped]

InFlight(c) == cyc[c].pc \in { "list", "verify" }
Finished(c) == cyc[c].pc \in { "ok", "failed" }
Free(c) == cyc[c].pc \in { "idle", "ok", "failed" }

Live == phase = "live"

\* A state setter of an unmounted component does nothing.
SetState(old, new) == IF Live THEN new ELSE old

\* ------------------------------------------------- the record verifier
\* { ...cdr, verified: v }: every field of cdr, and verified
Spread(cdr, v) ==
    [f \in (DOMAIN cdr) \cup { "verified" } |-> IF f = "verified" THEN v ELSE cdr[f]]

\* as AnnotateVerified, but ignoring the answer of the call
AnnotateVerifiedAlways(cdr, answer) == Spread(cdr, TRUE)

\* the try branch of the per-record callback: verifyRes.verified is the answer
AnnotateVerified(cdr, answer) == Spread(cdr, answer)

\* as AnnotateFailed, but returning the record as fetched
AnnotateFailedBare(cdr) == cdr

\* the catch branch of the per-record callback
AnnotateFailed(cdr) == Spread(cdr, FALSE)

\* what the per-record callback for cdr resolves to when its verifyCDR call ends with o
Annotated(cdr, o) ==
    IF o = "fail" THEN AnnotateFailed(cdr) ELSE AnnotateVerified(cdr, o = "true")

\* response.cdrs || []
RecordsOf(response) == IF response.hasCdrs THEN response.cdrs ELSE <<>>

\* as AllSettled, but resolving with the first callback that resolves
FirstSettled(outcome) == \E i \in DOMAIN outcome : outcome[i] # Pending

\* Promise.all resolves once every callback has resolved
AllSettled(outcome) == \A i \in DOMAIN outcome : outcome[i] # Pending

\* ------------------------------------------------- the auto-dismiss effect
\* as ErrorEffect, but with no dependency: the effect runs at mount only
ErrorEffectAtMountOnly(old, new, timer) == timer

\* useEffect(..., [error]): React re-runs the effect only when error differs
\* from its value at the previous render; it then runs the cleanup of the
\* previous run (clearTimeout) and, when error is set, starts a new timeout.
ErrorEffect(old, new, timer) ==
    IF new = old THEN timer
    ELSE IF new # NoError THEN ErrDelay
    ELSE NoTimer

\* ------------------------------------------------- text
\* the characters of the field values of the records
CharsOf(s) ==
    CASE s = "" -> << >>
      [] s = "A" -> << "A" >>
      [] s = "B" -> << "B" >>
      [] s = "C" -> << "C" >>
      [] s = "D" -> << "D" >>
      [] s = "Ab" -> << "A", "b" >>
      [] s = "h1" -> << "h", "1" >>
      [] s = "h2" -> << "h", "2" >>
      [] s = "H3" -> << "H", "3" >>
      [] s = "h4" -> << "h", "4" >>
      [] s = "Qm1" -> << "Q", "m", "1" >>
      [] s = "qM1" -> << "q", "M", "1" >>

\* String.prototype.toLowerCase, one character
LowerChar(ch) ==
    CASE ch = "A" -> "a" [] ch = "B" -> "b" [] ch = "C" -> "c" [] ch = "D" -> "d"
      [] ch = "H" -> "h" [] ch = "M" -> "m" [] ch = "Q" -> "q"
      [] OTHER -> ch

\* String.prototype.toLowerCase
toLowerCase(t) == [k \in DOMAIN t |-> LowerChar(t[k])]

\* the characters String.prototype.trim removes
WhiteSpace == { " ", "\t" }

\* String.prototype.trim: without the white space at either end
RECURSIVE trim(_)
trim(t) ==
    IF t = << >> THEN t
    ELSE IF Head(t) \in WhiteSpace THEN trim(Tail(t))
    ELSE IF t[Len(t)] \in WhiteSpace THEN trim(SubSeq(t, 1, Len(t) - 1))
    ELSE t

\* String.prototype.includes
includes(t, u) ==
    \E k \in 0..(Len(t) - Len(u)) : SubSeq(t, k + 1, k + Len(u)) = u

\* what JavaScript takes for true in cdr.ipfs_cid: a string that is not empty
Truthy(cid) == cid # NoCid /\ cid # ""

\* ------------------------------------------------- filterCDRs
\* as Matches, but trimming the search value before it is compared
MatchesTrimmed(cdr, searchValue) ==
    LET t == toLowerCase(trim(searchValue))
    IN  \/ includes(toLowerCase(CharsOf(cdr.caller)), t)
        \/ includes(toLowerCase(CharsOf(cdr.callee)), t)
        \/ includes(toLowerCase(CharsOf(cdr.hash)), t)
        \/ (Truthy(cdr.ipfs_cid) /\ includes(toLowerCase(CharsOf(cdr.ipfs_cid)), t))

\* the predicate handed to cdrs.filter
Matches(cdr, searchValue) ==
    LET t == toLowerCase(searchValue)
    IN  \/ includes(toLowerCase(CharsOf(cdr.caller)), t)
        \/ includes(toLowerCase(CharsOf(cdr.callee)), t)
        \/ includes(toLowerCase(CharsOf(cdr.hash)), t)
        \/ (Truthy(cdr.ipfs_cid) /\ includes(toLowerCase(CharsOf(cdr.ipfs_cid)), t))

\* what filterCDRs(searchValue) hands to setFilteredCdrs, cdrs being the
\* record set of the render the callback belongs to
filterCDRs(records, searchValue) ==
    IF trim(searchValue) = << >> THEN records
    ELSE SelectSeq(records, LAMBDA cdr : Matches(cdr, searchValue))

\* as FilterEffect, but with searchTerm as the only dependency
FilterEffectOnTermOnly == filteredCdrs' = filteredCdrs

\* useEffect(() => filterCDRs(searchTerm), [cdrs, searchTerm, filterCDRs]),
\* run for the render that follows setCdrs
FilterEffect == filteredCdrs' = SetState(filteredCdrs, filterCDRs(cdrs', searchTerm))

\* ------------------------------------------------- getStats
\* as getStats, but counting a record as verified by its status only
getStatsByStatus(records) ==
    [total |-> Len(records),
     verified |-> Len(SelectSeq(records, LAMBDA cdr : cdr.status = "verified")),
     withIPFS |-> Len(SelectSeq(records, LAMBDA cdr : Truthy(cdr.ipfs_cid))),
     errors |-> Len(SelectSeq(records, LAMBDA cdr : cdr.status = "error" \/ cdr.status = "mismatch"))]

\* getStats(), cdrs being the record set of the render
getStats(records) ==
    [total |-> Len(records),
     verified |-> Len(SelectSeq(records, LAMBDA cdr : cdr.status = "verified" \/ cdr.verified)),
     withIPFS |-> Len(SelectSeq(records, LAMBDA cdr : Truthy(cdr.ipfs_cid))),
     errors |-> Len(SelectSeq(records, LAMBDA cdr : cdr.status = "error" \/ cdr.status = "mismatch"))]

\* ------------------------------------------------- fetchCDRs
\* the slot a new invocation takes
FirstFree == CHOOSE c \in Slots : Free(c) /\ \A d \in Slots : Free(d) => c <= d

\* as Start, but without setError(null)
StartKeepingError(trig) ==
    /\ Live
    /\ \E c \in Slots : Free(c)
    /\ LET c == FirstFree
       IN  cyc' = [d \in Slots |->
                    IF d = c
                    THEN [IdleSlot EXCEPT !.pc = "list", !.trigger = trig,
                                          !.overlapped = \E e \in Slots : InFlight(e)]
                    ELSE IF InFlight(d) THEN [cyc[d] EXCEPT !.overlapped = TRUE]
                    ELSE cyc[d]]
    /\ loading' = TRUE
    /\ UNCHANGED << cdrs, lastRefresh, pub, error, errTimer >>

\* as Start, but returning at once while a refresh is shown as running
StartUnlessLoading(trig) ==
    /\ Live
    /\ ~loading
    /\ \E c \in Slots : Free(c)
    /\ LET c == FirstFree
       IN  cyc' = [d \in Slots |->
                    IF d = c
                    THEN [IdleSlot EXCEPT !.pc = "list", !.trigger = trig,
                                          !.overlapped = \E e \in Slots : InFlight(e)]
                    ELSE IF InFlight(d) THEN [cyc[d] EXCEPT !.overlapped = TRUE]
                    ELSE cyc[d]]
    /\ loading' = TRUE
    /\ error' = NoError
    /\ errTimer' = ErrorEffect(error, NoError, errTimer)
    /\ UNCHANGED << cdrs, lastRefresh, pub >>

\* the synchronous start of fetchCDRs, up to the await of getAllCDRs
Start(trig) ==
    /\ Live
    /\ \E c \in Slots : Free(c)
    /\ LET c == FirstFree
       IN  cyc' = [d \in Slots |->
                    IF d = c
                    THEN [IdleSlot EXCEPT !.pc = "list", !.trigger = trig,
                                          !.overlapped = \E e \in Slots : InFlight(e)]
                    ELSE IF InFlight(d) THEN [cyc[d] EXCEPT !.overlapped = TRUE]
                    ELSE cyc[d]]
    /\ loading' = TRUE
    /\ error' = NoError
    /\ errTimer' = ErrorEffect(error, NoError, errTimer)
    /\ UNCHANGED << cdrs, lastRefresh, pub >>

\* as Catch, but blanking the record set
CatchBlanking ==
    /\ error' = SetState(error, ErrMsg)
    /\ errTimer' = ErrorEffect(error, error', errTimer)
    /\ cdrs' = SetState(cdrs, <<>>)
    /\ UNCHANGED << lastRefresh, pub >>

\* the catch block
Catch ==
    /\ error' = SetState(error, ErrMsg)
    /\ errTimer' = ErrorEffect(error, error', errTimer)
    /\ UNCHANGED << cdrs, lastRefresh, pub >>

\* as Finally, but leaving the flag as it is
FinallyMissing == loading' = loading

\* the finally block
Finally == loading' = SetState(loading, FALSE)

\* as Publish, but keeping the records of the previous set that the new one
\* does not reach
PublishMerged(c, records, outcome, verifiedResults) ==
    /\ cdrs' = SetState(cdrs, [i \in 1..(IF Len(cdrs) > Len(verifiedResults)
                                          THEN Len(cdrs) ELSE Len(verifiedResults)) |->
                                IF i <= Len(verifiedResults) THEN verifiedResults[i] ELSE cdrs[i]])
    /\ lastRefresh' = SetState(lastRefresh, c)
    /\ pub' = SetState(pub, [records |-> records, outcome |-> outcome])
    /\ UNCHANGED << error, errTimer >>

\* as Publish, but without setLastRefresh
PublishUnstamped(c, records, outcome, verifiedResults) ==
    /\ cdrs' = SetState(cdrs, verifiedResults)
    /\ pub' = SetState(pub, [records |-> records, outcome |-> outcome])
    /\ UNCHANGED << lastRefresh, error, errTimer >>

\* setCdrs(verifiedResults); setLastRefresh(new Date())
Publish(c, records, outcome, verifiedResults) ==
    /\ cdrs' = SetState(cdrs, verifiedResults)
    /\ lastRefresh' = SetState(lastRefresh, c)
    /\ pub' = SetState(pub, [records |-> records, outcome |-> outcome])
    /\ UNCHANGED << error, errTimer >>

\* getAllCDRs rejects: catch, finally
ListFail(c) ==
    /\ cyc[c].pc = "list"
    /\ cyc' = [cyc EXCEPT ![c] = Returned(cyc[c], "failed")]
    /\ Catch
    /\ Finally
    /\ UNCHANGED << phase, polling, searchTerm, filteredCdrs >>

\* getAllCDRs resolves: one verifyCDR call per record is issued; with no
\* record Promise.all resolves at once and the result is published
ListOk(c, response) ==
    /\ cyc[c].pc = "list"
    /\ LET records == RecordsOf(response)
           outcome == [i \in DOMAIN records |-> Pending]
       IN  IF AllSettled(outcome)
           THEN /\ cyc' = [cyc EXCEPT ![c] = Returned(cyc[c], "ok")]
                /\ Publish(c, records, outcome, <<>>)
                /\ FilterEffect
                /\ Finally
           ELSE /\ cyc' = [cyc EXCEPT ![c].pc = "verify", ![c].records = records,
                                      ![c].outcome = outcome,
                                      ![c].settled = [i \in DOMAIN records |-> Pending]]
                /\ UNCHANGED << cdrs, loading, error, lastRefresh, errTimer, pub, filteredCdrs >>
    /\ UNCHANGED << phase, polling, searchTerm >>

\* as VerifySettle, but without the per-record try/catch: a rejected
\* verifyCDR call rejects Promise.all and reaches the catch of fetchCDRs
VerifySettleUnisolated(c, i, o) ==
    /\ cyc[c].pc = "verify"
    /\ i \in DOMAIN cyc[c].outcome
    /\ cyc[c].outcome[i] = Pending
    /\ LET outcome == [cyc[c].outcome EXCEPT ![i] = o]
           settled == [cyc[c].settled EXCEPT ![i] = Annotated(cyc[c].records[i], o)]
       IN  IF o = "fail"
           THEN /\ cyc' = [cyc EXCEPT ![c] = Returned(cyc[c], "failed")]
                /\ Catch
                /\ Finally
                /\ UNCHANGED filteredCdrs
           ELSE IF AllSettled(outcome)
           THEN /\ cyc' = [cyc EXCEPT ![c] = Returned(cyc[c], "ok")]
                /\ Publish(c, cyc[c].records, outcome, settled)
                /\ FilterEffect
                /\ Finally
           ELSE /\ cyc' = [cyc EXCEPT ![c].outcome = outcome, ![c].settled = settled]
                /\ UNCHANGED << cdrs, loading, error, lastRefresh, errTimer, pub, filteredCdrs >>
    /\ UNCHANGED << phase, polling, searchTerm >>

\* as VerifySettle, but with the calls awaited one after the other: the
\* call for record i is issued once the calls before it have ended
VerifySettleInOrder(c, i, o) ==
    /\ cyc[c].pc = "verify"
    /\ i \in DOMAIN cyc[c].outcome
    /\ cyc[c].outcome[i] = Pending
    /\ \A j \in 1..(i - 1) : cyc[c].outcome[j] # Pending
    /\ LET outcome == [cyc[c].outcome EXCEPT ![i] = o]
           settled == [cyc[c].settled EXCEPT ![i] = Annotated(cyc[c].records[i], o)]
       IN  IF AllSettled(outcome)
           THEN /\ cyc' = [cyc EXCEPT ![c] = Returned(cyc[c], "ok")]
                /\ Publish(c, cyc[c].records, outcome, settled)
                /\ FilterEffect
                /\ Finally
           ELSE /\ cyc' = [cyc EXCEPT ![c].outcome = outcome, ![c].settled = settled]
                /\ UNCHANGED << cdrs, loading, error, lastRefresh, errTimer, pub, filteredCdrs >>
    /\ UNCHANGED << phase, polling, searchTerm >>

\* the verifyCDR call for record i ends with o: the callback of record i
\* resolves; when it was the last one, Promise.all resolves and fetchCDRs
\* publishes the result
VerifySettle(c, i, o) ==
    /\ cyc[c].pc = "verify"
    /\ i \in DOMAIN cyc[c].outcome
    /\ cyc[c].outcome[i] = Pending
    /\ LET outcome == [cyc[c].outcome EXCEPT ![i] = o]
           settled == [cyc[c].settled EXCEPT ![i] = Annotated(cyc[c].records[i], o)]
       IN  IF AllSettled(outcome)
           THEN /\ cyc' = [cyc EXCEPT ![c] = Returned(cyc[c], "ok")]
                /\ Publish(c, cyc[c].records, outcome, settled)
                /\ FilterEffect
                /\ Finally
           ELSE /\ cyc' = [cyc EXCEPT ![c].outcome = outcome, ![c].settled = settled]
                /\ UNCHANGED << cdrs, loading, error, lastRefresh, errTimer, pub, filteredCdrs >>
    /\ UNCHANGED << phase, polling, searchTerm >>

\* ------------------------------------------------- mounting, timers, clicks
\* the first render's effects: fetchCDRs(), setInterval(fetchCDRs, 20000)
Mount ==
    /\ phase = "init"
    /\ phase' = "live"
    /\ cyc' = [cyc EXCEPT ![1] = [IdleSlot EXCEPT !.pc = "list", !.trigger = "auto"]]
    /\ loading' = TRUE
    /\ error' = NoError
    /\ errTimer' = ErrorEffect(error, NoError, errTimer)
    /\ polling' = TRUE
    /\ filteredCdrs' = filterCDRs(cdrs, searchTerm)
    /\ UNCHANGED << cdrs, lastRefresh, pub, searchTerm >>

\* the interval callback
IntervalFire ==
    /\ polling
    /\ Start("auto")
    /\ UNCHANGED << phase, polling, searchTerm, filteredCdrs >>

\* onClick={fetchCDRs} of the header button (disabled while loading), of the
\* Retry Fetch button (rendered while an error is shown), and
\* onRefresh={fetchCDRs} handed to the table
ManualRefresh ==
    /\ \/ ~loading           \* the header button, disabled={loading}
       \/ error # NoError    \* Retry Fetch, rendered while the error is shown
       \/ TRUE               \* onRefresh of the table
    /\ Start("manual")
    /\ UNCHANGED << phase, polling, searchTerm, filteredCdrs >>

\* the auto-dismiss timeout callback: setError(null)
ErrTimerFire ==
    /\ errTimer = 0
    /\ error' = NoError
    /\ errTimer' = NoTimer
    /\ UNCHANGED << phase, cdrs, loading, lastRefresh, cyc, polling, pub, searchTerm, filteredCdrs >>

\* one unit of time passes; a timeout that is due fires before more time passes
Tick ==
    /\ errTimer > 0
    /\ errTimer' = errTimer - 1
    /\ UNCHANGED << phase, cdrs, loading, error, lastRefresh, cyc, polling, pub,
                    searchTerm, filteredCdrs >>

\* as Unmount, but with no cleanup returned by the polling effect
UnmountLeavingInterval ==
    /\ Live
    /\ phase' = "gone"
    /\ polling' = polling
    /\ errTimer' = NoTimer
    /\ UNCHANGED << cdrs, loading, error, lastRefresh, cyc, pub, searchTerm, filteredCdrs >>

\* the component unmounts: the cleanups run clearInterval and clearTimeout
Unmount ==
    /\ Live
    /\ phase' = "gone"
    /\ polling' = FALSE
    /\ errTimer' = NoTimer
    /\ UNCHANGED << cdrs, loading, error, lastRefresh, cyc, pub, searchTerm, filteredCdrs >>

Init ==
    /\ phase = "init"
    /\ cdrs = <<>>
    /\ loading = TRUE
    /\ error = NoError
    /\ lastRefresh = 0
    /\ cyc = [c \in Slots |-> IdleSlot]
    /\ polling = FALSE
    /\ errTimer = NoTimer
    /\ pub = [records |-> <<>>, outcome |-> <<>>]
    /\ searchTerm = << >>
    /\ filteredCdrs = << >>

Next ==
    \/ Mount
    \/ IntervalFire
    \/ ManualRefresh
    \/ \E c \in Slots : ListFail(c)
    \/ \E c \in Slots, response \in Responses : ListOk(c, response)
    \/ \E c \in Slots, i \in 1..MaxLen, o \in VerifyOutcomes : VerifySettle(c, i, o)
    \/ ErrTimerFire
    \/ Tick
    \/ Unmount

Spec == Init /\ [][Next]_vars

TypeOK ==
    /\ phase \in { "init", "live", "gone" }
    /\ loading \in BOOLEAN
    /\ error \in { NoError, ErrMsg }
    /\ lastRefresh \in 0..MaxCycles
    /\ polling \in BOOLEAN
    /\ errTimer \in NoTimer..ErrDelay

\* Every call that was issued settles, and time passes: the list call and
\* the verify calls of an invocation end one way or the other, a pending
\* timeout counts down and its callback runs when it is due.
FairSpec ==
    /\ Spec
    /\ WF_vars(Tick)
    /\ WF_vars(ErrTimerFire)
    /\ \A c \in Slots : WF_vars(ListFail(c) \/ \E response \in Responses : ListOk(c, response))
    /\ \A c \in Slots : WF_vars(\E i \in 1..MaxLen, o \in VerifyOutcomes : VerifySettle(c, i, o))

\* ------------------------------------------------- the search bar
\* as HandleSearch, but narrowing the record set itself
HandleSearchNarrowing(searchValue) ==
    /\ Live
    /\ searchTerm' = searchValue
    /\ cdrs' = filterCDRs(cdrs, searchValue)
    /\ filteredCdrs' = filterCDRs(cdrs', searchValue)
    /\ UNCHANGED << phase, loading, error, lastRefresh, cyc, polling, errTimer, pub >>

\* handleSearch(searchValue): setSearchTerm, filterCDRs(searchValue), and the
\* re-filter effect of the render that follows, which filters the same
\* record set by the same value once more
HandleSearch(searchValue) ==
    /\ Live
    /\ searchTerm' = searchValue
    /\ filteredCdrs' = filterCDRs(cdrs, searchValue)
    /\ UNCHANGED << phase, cdrs, loading, error, lastRefresh, cyc, polling, errTimer, pub >>

\* the search values typed while refreshes run: none, and one that the first
\* record of the ledger matches and the second does not
SearchTerms == { << >>, << "a" >> }

\* the refresh machine together with the search bar
SearchNext ==
    \/ Next
    \/ \E searchValue \in SearchTerms : HandleSearch(searchValue)

SearchSpec == Init /\ [][SearchNext]_vars

\* ------------------------------------------------- filter and statistics
\* over record sets and search values of every kind
\* Records as setCdrs receives them: with and without an ipfs_cid, with an
\* empty one, with each status and without one, verified or not.
DeriveRecords ==
    { Spread(Ledger[1], TRUE),
      Spread(Ledger[1], FALSE),
      Spread(Ledger[2], FALSE),
      [caller |-> "Ab", callee |-> "C", hash |-> "H3", ipfs_cid |-> "",
       status |-> NoStatus, verified |-> TRUE],
      [caller |-> "D", callee |-> "A", hash |-> "h4", ipfs_cid |-> "qM1",
       status |-> "mismatch", verified |-> FALSE],
      [caller |-> "B", callee |-> "D", hash |-> "h1", ipfs_cid |-> NoCid,
       status |-> NoStatus, verified |-> FALSE] }

DeriveLists == UNION { [1..n -> DeriveRecords] : n \in 0..MaxDeriveLen }

\* Search values: empty, white space only, in either case, with white space
\* in front, matching nothing, and the letters of "undefined".
Terms ==
    { << >>, << " " >>, << " ", "\t" >>, << "a" >>, << "A", "B" >>, << "h", "1" >>,
      << "Q", "M" >>, << "z" >>, << " ", "a" >>, << "u", "n", "d" >> }

\* a mounted component whose first refresh published the record set l,
\* before anything is typed into the search bar
DeriveInit ==
    \E l \in DeriveLists :
        /\ phase = "live"
        /\ cdrs = l
        /\ loading = FALSE
        /\ error = NoError
        /\ lastRefresh = 1
        /\ cyc = [c \in Slots |-> IF c = 1 THEN [IdleSlot EXCEPT !.pc = "ok", !.trigger = "auto"]
                                   ELSE IdleSlot]
        /\ polling = TRUE
        /\ errTimer = NoTimer
        /\ pub = [records |-> [i \in DOMAIN l |->
                                 [f \in (DOMAIN l[i]) \ { "verified" } |-> l[i][f]]],
                  outcome |-> [i \in DOMAIN l |-> IF l[i].verified THEN "true" ELSE "false"]]
        /\ searchTerm = << >>
        /\ filteredCdrs = filterCDRs(l, << >>)

DeriveNext == \E searchValue \in Terms : HandleSearch(searchValue)

DeriveSpec == DeriveInit /\ [][DeriveNext]_vars

\* ========================================================== the claims
\* Steps of invocation c, told by what they do to its slot.
Starts(c) == cyc[c].pc # "list" /\ cyc'[c].pc = "list"
FetchFails(c) == cyc[c].pc = "list" /\ cyc'[c].pc = "failed"
Succeeds(c) == InFlight(c) /\ cyc'[c].pc = "ok"
Progresses(c) ==
    \/ cyc[c].pc = "list" /\ cyc'[c].pc \in { "verify", "ok" }
    \/ cyc[c].pc = "verify" /\ (cyc'[c].pc = "ok" \/ cyc'[c].outcome # cyc[c].outcome)

\* C1: the record set a refresh publishes has the length and order of the
\* fetched list, the record at each index keeps every fetched field, and
\* carries a boolean verified that is the answer of its verification call.
C1_AnnotatedInOrder ==
    /\ Len(cdrs) = Len(pub.records)
    /\ \A i \in 1..Len(pub.records) :
         /\ DOMAIN cdrs[i] = (DOMAIN pub.records[i]) \cup { "verified" }
         /\ \A f \in DOMAIN pub.records[i] : cdrs[i][f] = pub.records[i][f]
         /\ cdrs[i].verified \in BOOLEAN
         /\ pub.outcome[i] = "true" => cdrs[i].verified = TRUE
         /\ pub.outcome[i] = "false" => cdrs[i].verified = FALSE

\* a refresh has published two records, the first answered true, the second false
C1_Witness ==
    /\ lastRefresh # 0
    /\ Len(cdrs) = 2
    /\ pub.outcome = << "true", "false" >>
    /\ cdrs[1].caller = "A" /\ cdrs[2].caller = "C"

\* C2: a record whose verification call failed is published with verified
\* false, and every other record with the answer of its own call, for any
\* set of failing indices.
C2_FailureIsolated ==
    \A k \in DOMAIN pub.outcome :
        pub.outcome[k] = "fail" =>
            /\ k \in DOMAIN cdrs
            /\ "verified" \in DOMAIN cdrs[k]
            /\ cdrs[k].verified = FALSE
            /\ \A j \in (DOMAIN pub.outcome) \ { k } :
                 pub.outcome[j] # "fail" =>
                     /\ j \in DOMAIN cdrs
                     /\ cdrs[j].verified = (pub.outcome[j] = "true")
                     /\ \A f \in DOMAIN pub.records[j] : cdrs[j][f] = pub.records[j][f]

\* a refresh has published two records, the call of the first failed and
\* the call of the second answered true
C2_Witness ==
    /\ lastRefresh # 0
    /\ pub.outcome = << "fail", "true" >>
    /\ Len(cdrs) = 2
    /\ cdrs[2].verified

\* C3: a refresh whose list call fails leaves the record set as it was and
\* sets a non-empty error message.
C3_FetchFailureKeepsRecords ==
    [][\A c \in Slots :
         FetchFails(c) =>
             /\ cdrs' = cdrs
             /\ Live => error' \notin { NoError, "" }]_vars

\* a list call has failed while records of an earlier refresh were held:
\* they are still held and the error is shown
C3_Witness ==
    /\ Live
    /\ \E c \in Slots : cyc[c].pc = "failed"
    /\ \A c \in Slots : ~InFlight(c)
    /\ Len(cdrs) = 2
    /\ error = ErrMsg

\* C4: the record set changes only in the step in which an invocation
\* returns, and then to the complete result of that invocation: every record
\* it fetched, each with the outcome of its own verification call settled.
C4_PublishedWhole ==
    [][cdrs' # cdrs =>
         \E c \in Slots :
             /\ Succeeds(c)
             /\ pub'.records = (IF cyc[c].pc = "verify" THEN cyc[c].records ELSE <<>>)
             /\ Len(pub'.outcome) = Len(pub'.records)
             /\ \A i \in DOMAIN pub'.outcome : pub'.outcome[i] \in VerifyOutcomes
             /\ Len(cdrs') = Len(pub'.records)
             /\ \A i \in DOMAIN cdrs' :
                  /\ "verified" \in DOMAIN cdrs'[i]
                  /\ cyc[c].outcome[i] # Pending => cdrs'[i] = cyc[c].settled[i]]_vars

\* an invocation holds a settled record that differs from the published one
\* at the same index: its partial result is not in the record set
C4_Witness ==
    /\ lastRefresh # 0
    /\ Len(cdrs) = 2
    /\ \E c \in Slots :
         /\ cyc[c].pc = "verify"
         /\ cyc[c].outcome[1] # Pending
         /\ cyc[c].settled[1].verified # cdrs[1].verified

\* the complete annotated result of the invocation that wrote last
LastWritten ==
    [i \in 1..Len(pub.records) |->
        [f \in (DOMAIN pub.records[i]) \cup { "verified" } |->
            IF f = "verified" THEN pub.outcome[i] = "true" ELSE pub.records[i][f]]]

\* a timer-driven and a manual invocation that overlapped have both returned
RaceOver ==
    /\ \A c \in Slots : Finished(c) /\ cyc[c].overlapped
    /\ \E c, d \in Slots : cyc[c].trigger = "auto" /\ cyc[d].trigger = "manual"

\* C5: overlapping invocations all return, whatever the order of their
\* responses, and once they have, the record set is the complete result of
\* the one that wrote last, not a combination.
C5_LastWriterWins ==
    /\ \A c \in Slots : InFlight(c) ~> ~InFlight(c)
    /\ [](RaceOver /\ (\E c \in Slots : cyc[c].pc = "ok") =>
            /\ \A i \in DOMAIN pub.outcome : pub.outcome[i] \in VerifyOutcomes
            /\ cdrs = LastWritten)

\* the timer-driven invocation of slot 1 and the manual one of slot 2
\* overlapped, both succeeded, and the one started first wrote last
C5_Witness ==
    /\ Live
    /\ RaceOver
    /\ cyc[1].pc = "ok" /\ cyc[1].trigger = "auto"
    /\ cyc[2].pc = "ok" /\ cyc[2].trigger = "manual"
    /\ lastRefresh = 1
    /\ Len(cdrs) = 1

\* C6: an invocation sets loading when it starts and, its calls settling,
\* returns, clearing loading in its last step on the failure branch as on
\* the success branch.
C6_LoadingBracketed ==
    /\ [][\A c \in Slots :
            /\ Starts(c) => loading'
            /\ (Live /\ (FetchFails(c) \/ Succeeds(c))) => ~loading']_vars
    /\ \A c \in Slots : (cyc[c].pc = "list") ~> Finished(c)

\* the only invocation has returned on the failure branch and loading is off
C6_Witness ==
    /\ Live
    /\ cyc[1].pc = "failed"
    /\ \A c \in Slots : ~InFlight(c)
    /\ ~loading

\* C7: while the component is mounted, an error that is shown has its
\* auto-dismiss timeout pending, and is cleared again.
C7_ErrorExpires ==
    /\ []((Live /\ error # NoError) => errTimer >= 0)
    /\ (Live /\ error # NoError) ~> (error = NoError \/ ~Live)

\* the error is shown and its timeout is due
C7_Witness ==
    /\ Live
    /\ error = ErrMsg
    /\ errTimer = 0

\* C8: every fetch failure starts a fresh full auto-dismiss delay, also when
\* the error is already shown.
C8_FailureResetsExpiry ==
    [][\A c \in Slots : (Live /\ FetchFails(c)) => errTimer' = ErrDelay]_vars

\* C9: the error is set only by a failing list call, cleared only by its
\* timeout or by the start of an invocation, and every start clears it.
C9_ErrorTransitions ==
    [][/\ (error = NoError /\ error' # NoError) => \E c \in Slots : FetchFails(c)
       /\ (error # NoError /\ error' = NoError) =>
             \/ errTimer = 0 /\ errTimer' = NoTimer /\ cyc' = cyc
             \/ \E c \in Slots : Starts(c)
       /\ \A c \in Slots : Starts(c) => error' = NoError /\ errTimer' = NoTimer]_vars

\* after the invocation of slot 2 failed, a later one has started alone and
\* no error is shown
C9_Witness ==
    /\ Live
    /\ cyc[2].pc = "failed"
    /\ cyc[1].pc = "list" /\ ~cyc[1].overlapped
    /\ error = NoError
    /\ errTimer = NoTimer

\* C10: no step of an invocation whose list call succeeded touches the
\* error, however many of its verification calls fail; it publishes its
\* result and returns.
C10_VerifyFailuresSilent ==
    [][\A c \in Slots :
         Progresses(c) =>
             /\ error' = error
             /\ errTimer' = errTimer
             /\ (Live /\ Succeeds(c)) =>
                    /\ lastRefresh' = c
                    /\ Len(cdrs') = Len(pub'.records)
                    /\ ~loading']_vars

\* every verification call of the last refresh failed: both records are
\* published unverified and no error is shown
C10_Witness ==
    /\ Live
    /\ pub.outcome = << "fail", "fail" >>
    /\ Len(cdrs) = 2
    /\ \A i \in 1..2 : ~cdrs[i].verified
    /\ error = NoError
    /\ \A c \in Slots : cyc[c].pc \in { "idle", "ok" }

\* C11: mounting starts one invocation at once and sets the interval; while
\* the component is mounted the interval stays set and its callback starts a
\* further invocation whenever it runs, whatever loading and error are; once
\* the component is unmounted no invocation is started any more and neither
\* the interval nor an auto-dismiss timeout is pending, while the invocations
\* then in flight still return.
C11_PollingLifecycle ==
    [][ /\ (phase = "init" /\ phase' = "live" =>
                cyc'[1].pc = "list" /\ cyc'[1].trigger = "auto" /\ polling')
        /\ (Live => polling)
        /\ (Live /\ (\E c \in Slots : Free(c)) => ENABLED IntervalFire)
        /\ (phase = "gone" => \A c \in Slots : ~Starts(c))
        /\ (phase' = "gone" => ~polling' /\ errTimer' = NoTimer) ]_vars

\* the component was unmounted while an error was shown and the first
\* invocation was in flight; that invocation has returned since
C11_Witness ==
    /\ phase = "gone"
    /\ error = ErrMsg /\ errTimer = NoTimer /\ ~polling
    /\ cyc[2].pc = "failed"
    /\ cyc[1].pc = "ok" /\ lastRefresh = 0

\* C12: a mounted component is never stuck: in every state the interval
\* callback and a manual trigger can start an invocation, whatever happened
\* before (an error shown, loading set, other invocations in flight); the
\* invocation starts afresh, holding nothing of an earlier one; and when its
\* calls succeed its result, one annotated record per fetched record, becomes
\* the record set: with every issued call settling, an invocation whose list
\* call succeeded always gets there.
C12_NeverStuck ==
    /\ \A c \in Slots : (cyc[c].pc = "verify") ~> (cyc[c].pc = "ok")
    /\ [][
        /\ (Live /\ (\E c \in Slots : Free(c)) => ENABLED IntervalFire /\ ENABLED ManualRefresh)
        /\ \A c \in Slots :
            /\ (Starts(c) =>
                    /\ cyc'[c].records = << >> /\ cyc'[c].outcome = << >>
                    /\ loading' /\ error' = NoError)
            /\ (Live /\ Succeeds(c) =>
                    /\ lastRefresh' = c
                    /\ Len(cdrs') = Len(cyc[c].records)
                    /\ \A i \in DOMAIN cdrs' :
                        /\ "verified" \in DOMAIN cdrs'[i]
                        /\ \A f \in DOMAIN cyc[c].records[i] : cdrs'[i][f] = cyc[c].records[i][f])
       ]_vars

\* an invocation failed; a manual one started later, with nothing else in
\* flight, and published both records of the ledger
C12_Witness ==
    /\ Live
    /\ cyc[2].pc = "failed"
    /\ cyc[1].pc = "ok" /\ cyc[1].trigger = "manual" /\ ~cyc[1].overlapped
    /\ lastRefresh = 1 /\ Len(cdrs) = 2
    /\ error = NoError /\ ~loading

C14_FilterContract ==
    LET term == searchTerm
        blank == \A k \in DOMAIN term : term[k] \in WhiteSpace
        Within(s) ==
            LET t == CharsOf(s)
            IN  \E off \in 0..Len(t) :
                    /\ off + Len(term) <= Len(t)
                    /\ \A k \in DOMAIN term : LowerChar(t[off + k]) = LowerChar(term[k])
        Hit(cdr) ==
            \/ Within(cdr.caller)
            \/ Within(cdr.callee)
            \/ Within(cdr.hash)
            \/ (cdr.ipfs_cid # NoCid /\ Within(cdr.ipfs_cid))
        Kept == { i \in DOMAIN cdrs : Hit(cdrs[i]) }
        Nth(k) == CHOOSE i \in Kept : Cardinality({ j \in Kept : j <= i }) = k
    IN  IF blank
        THEN filteredCdrs = cdrs
        ELSE /\ Len(filteredCdrs) = Cardinality(Kept)
             /\ \A k \in DOMAIN filteredCdrs : filteredCdrs[k] = cdrs[Nth(k)]

\* a term in upper case is found in the ipfs_cid of the second record only,
\* the first record having none
C14_Witness ==
    /\ searchTerm = << "Q", "M" >>
    /\ Len(cdrs) = 2 /\ cdrs[1].ipfs_cid = NoCid /\ cdrs[2].ipfs_cid = "qM1"
    /\ filteredCdrs = << cdrs[2] >>

\* C15: the statistics of a record set are its length, the number of records
\* with status "verified" or verified true, the number with an ipfs_cid that
\* is present and not empty, and the number with status "error" or
\* "mismatch"; a record may count for several; none exceeds the length; all
\* are 0 for the empty set.
C15_StatsContract ==
    LET s == getStats(cdrs)
        Count(P(_)) == Cardinality({ i \in DOMAIN cdrs : P(cdrs[i]) })
        IsVerified(cdr) == cdr.status = "verified" \/ cdr.verified = TRUE
        HasCid(cdr) == cdr.ipfs_cid \notin { NoCid, "" }
        IsError(cdr) == cdr.status \in { "error", "mismatch" }
    IN  /\ s.total = Len(cdrs)
        /\ s.verified = Count(IsVerified)
        /\ s.withIPFS = Count(HasCid)
        /\ s.errors = Count(IsError)
        /\ s.verified <= s.total /\ s.withIPFS <= s.total /\ s.errors <= s.total
        /\ (cdrs = << >> => s = [total |-> 0, verified |-> 0, withIPFS |-> 0, errors |-> 0])

\* one record is verified by its status only, the other by its flag only and
\* carries an empty ipfs_cid; a search that matches neither is shown
C15_Witness ==
    /\ searchTerm = << "z" >> /\ filteredCdrs = << >>
    /\ Len(cdrs) = 2
    /\ cdrs[1].status = "verified" /\ ~cdrs[1].verified /\ cdrs[1].ipfs_cid = "Qm1"
    /\ cdrs[2].status = NoStatus /\ cdrs[2].verified /\ cdrs[2].ipfs_cid = ""
    /\ getStats(cdrs) = [total |-> 2, verified |-> 2, withIPFS |-> 1, errors |-> 0]

\* C16, as stated: every invocation that returns while the component is
\* mounted, whether its fetch succeeded or failed, sets lastRefresh.
C16_StampedEveryCycle ==
    [][ \A c \in Slots : Live /\ (Succeeds(c) \/ FetchFails(c)) => lastRefresh' = c ]_vars

\* C16, amended: lastRefresh is set by every invocation whose fetch
\* succeeded, when it publishes its result, and by nothing else: an
\* invocation whose fetch failed leaves it as the last successful one set it.
C16_StampedOnSuccess ==
    [][ /\ \A c \in Slots :
            /\ (Live /\ Succeeds(c) => lastRefresh' = c)
            /\ (FetchFails(c) => lastRefresh' = lastRefresh)
        /\ (lastRefresh' # lastRefresh => \E c \in Slots : Succeeds(c)) ]_vars

\* the invocation of slot 1 published, a later invocation in the same slot
\* failed, and lastRefresh is still what the first one set
C16_Witness ==
    /\ Live
    /\ cyc[1].pc = "failed" /\ error = ErrMsg
    /\ lastRefresh = 1 /\ Len(cdrs) = 2

\* C17: at most one auto-dismiss timeout is pending and none while no error
\* is shown: the start of an invocation, the timeout callback and the unmount
\* leave none pending, and a failure while a timeout is pending cancels it
\* and starts a fresh one, so that the timeout that clears the message is
\* always the one of the most recent failure.
C17_TimersNeverStack ==
    [][ /\ (error' = NoError => errTimer' = NoTimer)
        /\ (\A c \in Slots : Starts(c) => errTimer' = NoTimer)
        /\ (errTimer = 0 /\ error # NoError /\ error' = NoError => errTimer' = NoTimer)
        /\ (phase' = "gone" => errTimer' = NoTimer)
        /\ (\A c \in Slots : Live /\ FetchFails(c) /\ errTimer # NoTimer => errTimer' = ErrDelay)
      ]_vars

C19_StatsOverFullSet ==
    [][ /\ (searchTerm' # searchTerm =>
                /\ cdrs' = cdrs
                /\ getStats(cdrs') = getStats(cdrs)
                /\ filteredCdrs' = filterCDRs(cdrs, searchTerm')
                /\ UNCHANGED << loading, error, lastRefresh >>)
        /\ \A c \in Slots :
            /\ (FetchFails(c) => cdrs' = cdrs /\ getStats(cdrs') = getStats(cdrs))
            /\ (Live /\ Succeeds(c) =>
                    /\ getStats(cdrs').total = Len(cyc[c].records)
                    /\ getStats(cdrs').withIPFS =
                          Cardinality({ i \in DOMAIN cyc[c].records :
                                            Truthy(cyc[c].records[i].ipfs_cid) })) ]_vars

\* both records of the ledger are published, a search term lets only the
\* first through, and a later invocation has failed: the counts are those of
\* both records
C19_Witness ==
    /\ Live
    /\ searchTerm = << "a" >> /\ Len(filteredCdrs) = 1
    /\ error = ErrMsg
    /\ getStats(cdrs).total = 2 /\ getStats(cdrs).withIPFS = 1 /\ getStats(cdrs).errors = 1

\* C20: loading is true whenever an invocation is in flight, also when two
\* overlap, and becomes false only when none is in flight any more.
C20_LoadingWhileInFlight ==
    [][ /\ (Live' /\ (\E c \in Slots : InFlight(c)') => loading')
        /\ (loading /\ ~loading' => \A c \in Slots : ~InFlight(c)') ]_vars

=============================================================================
